---- MODULE Spec2Model ----
(***************************************************************************)
(* A model of cmd/clean/main.go: four CSV readers (readOkhotsk,            *)
(* readTaiwan, readJapan, readGSOD), the date-keyed join of mainWithErr    *)
(* and the CSV writer.                                                     *)
(*                                                                         *)
(* Representation.  A text (a CSV field, a formatted date or number) is a  *)
(* sequence of one-character strings.  A float64 is an integer number of   *)
(* tenths (-899 is -89.9); every number text of the input sets has at most *)
(* one fractional digit, and the Fahrenheit inputs are those whose Celsius *)
(* value is a whole number of tenths.  A time.Time is the calendar date    *)
(* [year, month, day] (the readers only parse dates, at midnight UTC).     *)
(* An error is the sequence of its layers, outermost first; nil is << >>.  *)
(***************************************************************************)
EXTENDS Integers, Sequences, FiniteSets, TLC

\* ------------------------------------------------------------------ bounds

\* The most data rows of a CSV file.
MaxRows == 2

\* ------------------------------------------------------------------- texts

Digits == {"0", "1", "2", "3", "4", "5", "6", "7", "8", "9"}

DigitVal(c) ==
  CASE c = "0" -> 0 [] c = "1" -> 1 [] c = "2" -> 2 [] c = "3" -> 3
    [] c = "4" -> 4 [] c = "5" -> 5 [] c = "6" -> 6 [] c = "7" -> 7
    [] c = "8" -> 8 [] c = "9" -> 9

DigitChar(n) ==
  CASE n = 0 -> "0" [] n = 1 -> "1" [] n = 2 -> "2" [] n = 3 -> "3"
    [] n = 4 -> "4" [] n = 5 -> "5" [] n = 6 -> "6" [] n = 7 -> "7"
    [] n = 8 -> "8" [] n = 9 -> "9"

isDigit(s, i) == i >= 1 /\ i <= Len(s) /\ s[i] \in Digits

AllDigits(s) == \A i \in 1..Len(s) : s[i] \in Digits

\* The value of a text of decimal digits.
RECURSIVE Atoi(_)
Atoi(s) ==
  IF s = << >> THEN 0
  ELSE 10 * Atoi(SubSeq(s, 1, Len(s) - 1)) + DigitVal(s[Len(s)])

\* The decimal digits of a natural number (fmt's %d, strconv's integer part).
RECURSIVE Itoa(_)
Itoa(n) ==
  IF n < 10 THEN <<DigitChar(n)>>
  ELSE Itoa(n \div 10) \o <<DigitChar(n % 10)>>

\* The digits of n, zero-padded on the left to width w.
RECURSIVE Pad(_, _)
Pad(n, w) == IF Len(Itoa(n)) >= w THEN Itoa(n) ELSE
  LET RECURSIVE Zeros(_)
      Zeros(k) == IF k <= 0 THEN << >> ELSE <<"0">> \o Zeros(k - 1)
  IN Zeros(w - Len(Itoa(n))) \o Itoa(n)

\* strings.TrimSpace, for the space character.
RECURSIVE TrimSpace(_)
TrimSpace(s) ==
  IF s = << >> THEN s
  ELSE IF Head(s) = " " THEN TrimSpace(Tail(s))
  ELSE IF s[Len(s)] = " " THEN TrimSpace(SubSeq(s, 1, Len(s) - 1))
  ELSE s

\* The first index of character c in s, or 0.
IndexOf(s, c) ==
  IF \E i \in 1..Len(s) : s[i] = c
  THEN CHOOSE i \in 1..Len(s) : s[i] = c /\ \A j \in 1..(i - 1) : s[j] # c
  ELSE 0

\* ------------------------------------------------------------------ errors

nil == << >>

\* errors.New / a library error: one layer.
NewError(what) == <<[what |-> what, ctx |-> << >>]>>

\* errors.Wrap(err, msg): a layer with the positional context in front.
Wrap(e, ctx) == <<[what |-> "wrap", ctx |-> ctx]>> \o e

\* ------------------------------------------------------- strconv.ParseFloat

\* strconv.ParseFloat(s, 64) on decimal texts [+-]digits[.digits]; the value
\* in tenths.  Texts with a nonzero second fractional digit are not in the
\* input sets (their value is no whole number of tenths).
ParseFloat(s) ==
  LET signed == Len(s) > 0 /\ s[1] \in {"-", "+"}
      body == IF signed THEN Tail(s) ELSE s
      dot == IndexOf(body, ".")
      ip == IF dot = 0 THEN body ELSE SubSeq(body, 1, dot - 1)
      fp == IF dot = 0 THEN << >> ELSE SubSeq(body, dot + 1, Len(body))
      good == /\ AllDigits(ip) /\ AllDigits(fp)
              /\ Len(ip) + Len(fp) >= 1
              /\ \A i \in 2..Len(fp) : fp[i] = "0"
      mag == 10 * Atoi(ip) + (IF fp = << >> THEN 0 ELSE DigitVal(fp[1]))
  IN IF good
     THEN [v |-> IF signed /\ s[1] = "-" THEN 0 - mag ELSE mag, err |-> nil]
     ELSE [v |-> 0, err |-> NewError("strconv.ParseFloat: invalid syntax")]

\* ---------------------------------------------------------------- time.Time

Date(y, m, d) == [year |-> y, month |-> m, day |-> d]

ZeroTime == Date(1, 1, 1)

isLeap(y) == y % 4 = 0 /\ (y % 100 # 0 \/ y % 400 = 0)

daysIn(m, y) ==
  IF m = 2 THEN (IF isLeap(y) THEN 29 ELSE 28)
  ELSE IF m \in {4, 6, 9, 11} THEN 30 ELSE 31

\* The days of year y before month m.
RECURSIVE daysBefore(_, _)
daysBefore(m, y) == IF m <= 1 THEN 0 ELSE daysBefore(m - 1, y) + daysIn(m - 1, y)

\* t.Unix() of a date at midnight UTC, for years from 1970 to 2099.
Unix(t) ==
  LET y == t.year
      days == (y - 1970) * 365 + ((y - 1969) \div 4)
              + daysBefore(t.month, y) + (t.day - 1)
  IN days * 86400

\* t.Format(time.DateOnly): "2006-01-02".
FormatDateOnly(t) ==
  Pad(t.year, 4) \o <<"-">> \o Pad(t.month, 2) \o <<"-">> \o Pad(t.day, 2)

\* time's getnum(s, fixed) at index i: one digit, or two when the next
\* character is a digit too (and exactly two when fixed).
getnum(s, i, fixed) ==
  IF ~isDigit(s, i) THEN [ok |-> FALSE, v |-> 0, next |-> i]
  ELSE IF ~isDigit(s, i + 1)
       THEN [ok |-> ~fixed, v |-> DigitVal(s[i]), next |-> i + 1]
       ELSE [ok |-> TRUE, v |-> 10 * DigitVal(s[i]) + DigitVal(s[i + 1]),
             next |-> i + 2]

\* The four-digit year of layout element "2006" at index i.
getyear(s, i) ==
  IF i + 3 <= Len(s) /\ AllDigits(SubSeq(s, i, i + 3))
  THEN [ok |-> TRUE, v |-> Atoi(SubSeq(s, i, i + 3)), next |-> i + 4]
  ELSE [ok |-> FALSE, v |-> 0, next |-> i]

\* The literal character c of a layout at index i.
lit(s, i, c) == i <= Len(s) /\ s[i] = c

\* The end of time.Parse: no extra text, month and day in range.
validDate(s, next, y, m, d) ==
  /\ next = Len(s) + 1
  /\ m >= 1 /\ m <= 12
  /\ d >= 1 /\ d <= daysIn(m, y)

ParseResult(ok, y, m, d) ==
  IF ok THEN [t |-> Date(y, m, d), err |-> nil]
  ELSE [t |-> ZeroTime, err |-> NewError("parsing time")]

\* time.Parse("2006-01-02", s).
ParseDateOnly(s) ==
  LET y == getyear(s, 1)
      m == getnum(s, y.next + 1, TRUE)
      d == getnum(s, m.next + 1, TRUE)
      ok == /\ y.ok /\ lit(s, y.next, "-") /\ m.ok /\ lit(s, m.next, "-") /\ d.ok
            /\ validDate(s, d.next, y.v, m.v, d.v)
  IN ParseResult(ok, y.v, m.v, d.v)

\* time.Parse("2006-1-2", s).
ParseYMD(s) ==
  LET y == getyear(s, 1)
      m == getnum(s, y.next + 1, FALSE)
      d == getnum(s, m.next + 1, FALSE)
      ok == /\ y.ok /\ lit(s, y.next, "-") /\ m.ok /\ lit(s, m.next, "-") /\ d.ok
            /\ validDate(s, d.next, y.v, m.v, d.v)
  IN ParseResult(ok, y.v, m.v, d.v)

\* time.Parse("1/2/2006", s).
ParseMDY(s) ==
  LET m == getnum(s, 1, FALSE)
      d == getnum(s, m.next + 1, FALSE)
      y == getyear(s, d.next + 1)
      ok == /\ m.ok /\ lit(s, m.next, "/") /\ d.ok /\ lit(s, d.next, "/") /\ y.ok
            /\ validDate(s, y.next, y.v, m.v, d.v)
  IN ParseResult(ok, y.v, m.v, d.v)

\* -------------------------------------------------------------------- files

\* A file of the file system: absent, or its CSV records (the header first),
\* each record a sequence of fields.  row[k] of the code is At(row, k).
NoFile == [exists |-> FALSE, rows |-> << >>]

File(rows) == [exists |-> TRUE, rows |-> rows]

At(row, k) == row[k + 1]

\* type RawDatum struct { t; empty; v }
RawDatum(t, empty, v) == [t |-> t, empty |-> empty, v |-> v]

\* --------------------------------------------------------------- readTaiwan

\* The read loop of readTaiwan from record k of the file (i = k), with the
\* data appended so far.
RECURSIVE taiwanLoop(_, _, _)
taiwanLoop(rows, k, data) ==
  IF k > Len(rows) THEN [data |-> data, err |-> nil]
  ELSE LET row == rows[k]
           t == ParseDateOnly(At(row, 0))
           v == ParseFloat(At(row, 7))
       IN IF t.err # nil THEN [data |-> << >>, err |-> Wrap(t.err, <<k>>)]
          ELSE IF v.err # nil THEN [data |-> << >>, err |-> Wrap(v.err, <<k>>)]
          ELSE taiwanLoop(rows, k + 1, Append(data, RawDatum(t.t, FALSE, v.v)))

readTaiwan(f) ==
  IF ~f.exists THEN [data |-> << >>, err |-> Wrap(NewError("open"), << >>)]
  ELSE IF f.rows = << >> THEN [data |-> << >>, err |-> Wrap(NewError("EOF"), << >>)]
  ELSE taiwanLoop(f.rows, 2, << >>)

\* ---------------------------------------------------------------- readJapan

RECURSIVE japanLoop(_, _, _)
japanLoop(rows, k, data) ==
  IF k > Len(rows) THEN [data |-> data, err |-> nil]
  ELSE LET row == rows[k]
           t == ParseMDY(At(row, 0))
           v == ParseFloat(At(row, 1))
       IN IF t.err # nil THEN [data |-> << >>, err |-> Wrap(t.err, <<k>>)]
          ELSE IF At(row, 1) = << >>
               THEN japanLoop(rows, k + 1, Append(data, RawDatum(t.t, TRUE, 0)))
          ELSE IF v.err # nil THEN [data |-> << >>, err |-> Wrap(v.err, <<k>>)]
          ELSE japanLoop(rows, k + 1, Append(data, RawDatum(t.t, FALSE, v.v)))

readJapan(f) ==
  IF ~f.exists THEN [data |-> << >>, err |-> Wrap(NewError("open"), << >>)]
  ELSE IF f.rows = << >> THEN [data |-> << >>, err |-> Wrap(NewError("EOF"), << >>)]
  ELSE japanLoop(f.rows, 2, << >>)

\* ----------------------------------------------------------------- readGSOD

\* v = (v - 32) * 5 / 9, in tenths.
celsius(v) == ((v - 32 * 10) * 5) \div 9

RECURSIVE gsodLoop(_, _, _)
gsodLoop(rows, k, data) ==
  IF k > Len(rows) THEN [data |-> data, err |-> nil]
  ELSE LET row == rows[k]
           t == ParseDateOnly(At(row, 1))
           v == ParseFloat(TrimSpace(At(row, 2)))
       IN IF t.err # nil THEN [data |-> << >>, err |-> Wrap(t.err, <<k>>)]
          ELSE IF v.err # nil THEN [data |-> << >>, err |-> Wrap(v.err, <<k>>)]
          ELSE gsodLoop(rows, k + 1, Append(data, RawDatum(t.t, FALSE, celsius(v.v))))

readGSOD(f) ==
  IF ~f.exists THEN [data |-> << >>, err |-> Wrap(NewError("open"), << >>)]
  ELSE IF f.rows = << >> THEN [data |-> << >>, err |-> Wrap(NewError("EOF"), << >>)]
  ELSE gsodLoop(f.rows, 2, << >>)

\* ------------------------------------------------------------------- inputs

\* The sequences over S of length at most n.
SeqsUpTo(S, n) == UNION {[1..k -> S] : k \in 0..n}

Paths == {"data/okhotsk.csv", "data/danshui.csv", "data/katsuura.csv",
          "data/nemuro.csv", "data/yelizovo.csv"}

AuxPaths == Paths \ {"data/danshui.csv"}

Empty == << >>
Bad == <<"x">>
H == <<"h">>

\* The two calendar dates the sources share, in each source's date format.
DateOnly1 == <<"1", "9", "7", "8", "-", "0", "1", "-", "0", "1">>
DateOnly2 == <<"1", "9", "7", "8", "-", "0", "1", "-", "0", "2">>
MDY1 == <<"1", "/", "1", "/", "1", "9", "7", "8">>
MDY2 == <<"1", "/", "2", "/", "1", "9", "7", "8">>
D1 == Date(1978, 1, 1)
D2 == Date(1978, 1, 2)

\* A danshui record: the date in column 0, the value in column 7.
TaiwanRow(date, v) == <<date, Empty, Empty, Empty, Empty, Empty, Empty, v>>

TaiwanHeader == <<H, H, H, H, H, H, H, H>>

TaiwanRows ==
  {TaiwanRow(DateOnly1, v) : v \in {<<"-", "9", "5", ".", "0">>,
                                    <<"-", "8", "9", ".", "9">>}}
  \cup {TaiwanRow(DateOnly2, <<"-", "9", "0">>)}

\* An okhotsk record: month, day, and the cell of the one year column 1978.
OkhotskHeader == <<H, H, H>>

OkhotskRows ==
  {<<<<"1">>, <<"1">>, c>> : c \in {Empty, <<"5">>, <<"7">>}}
  \cup {<<<<"1">>, <<"2">>, <<"5">>>>}

JapanHeader == <<H, H>>

JapanRows ==
  {<<MDY1, c>> : c \in {Empty, <<"3", ".", "5">>, <<"4">>}}
  \cup {<<MDY2, <<"4">>>>}

\* A yelizovo record: station, date, temperature in Fahrenheit.
GsodHeader == <<H, H, H>>

GsodRows ==
  {<<H, DateOnly1, c>> : c \in {Empty, <<"4", "1", ".", "0">>,
                                <<" ", "5", "0", ".", "0">>}}
  \cup {<<H, DateOnly2, <<"4", "1", ".", "0">>>>}

\* The files of at most MaxRows data rows, an absent file and an empty one.
FilesOf(header, rows) ==
  {File(<<header>> \o d) : d \in SeqsUpTo(rows, MaxRows)} \cup {NoFile, File(<< >>)}

Variants(path) ==
  CASE path = "data/okhotsk.csv" -> FilesOf(OkhotskHeader, OkhotskRows)
    [] path = "data/danshui.csv" ->
         FilesOf(TaiwanHeader, TaiwanRows)
         \cup {File(<<TaiwanHeader, TaiwanRow(Bad, <<"1">>)>>),
               File(<<TaiwanHeader, TaiwanRow(DateOnly1, Bad)>>)}
    [] path = "data/yelizovo.csv" ->
         FilesOf(GsodHeader, GsodRows)
         \cup {File(<<GsodHeader, <<H, Bad, <<"1">>>>>>)}
    [] OTHER ->
         FilesOf(JapanHeader, JapanRows)
         \cup {File(<<JapanHeader, <<Bad, <<"1">>>>>>),
               File(<<JapanHeader, <<MDY1, Bad>>>>)}

\* The file with one present reading for each of the two dates.
Plain(path) ==
  CASE path = "data/okhotsk.csv" ->
         File(<<OkhotskHeader, <<<<"1">>, <<"1">>, <<"5">>>>,
                               <<<<"1">>, <<"2">>, <<"5">>>>>>)
    [] path = "data/danshui.csv" ->
         File(<<TaiwanHeader, TaiwanRow(DateOnly1, <<"-", "8", "9", ".", "9">>),
                              TaiwanRow(DateOnly2, <<"-", "9", "0">>)>>)
    [] path = "data/yelizovo.csv" ->
         File(<<GsodHeader, <<H, DateOnly1, <<"4", "1", ".", "0">>>>,
                            <<H, DateOnly2, <<"4", "1", ".", "0">>>>>>)
    [] OTHER ->
         File(<<JapanHeader, <<MDY1, <<"4">>>>, <<MDY2, <<"4">>>>>>)

\* The file systems of the runs: any danshui file, and one auxiliary file
\* that is any file of its format while the other three are plain.
FileSystems ==
  UNION {{[p \in Paths |-> IF p = a THEN f
                           ELSE IF p = "data/danshui.csv" THEN g
                           ELSE Plain(p)] :
            f \in Variants(a), g \in Variants("data/danshui.csv")} :
         a \in AuxPaths}

\* data.csv as an earlier run left it: the header and one record.
OldCsv ==
  File(<<<<"t", "danshui", "okhotsk", "katsuura", "nemuro", "yelizovo">>,
         <<<<"1", "9", "7", "7", "-", "1", "2", "-", "3", "1">>,
           <<"1", "9">>, <<"5">>, <<"4">>, <<"4">>, <<"5", ".", "0">>>>>>)

\* The okhotsk files of the parser's own runs: year columns 1978, 1979 and
\* 1980 (a leap year), rows for February 28 and 29 with the month written
\* "2" or "02", a row for February 30 and a row with an unparsable cell.
WideHeader == <<H, H, H, H, H>>

WideRows ==
  {<<m, d, a, b, c>> : m \in {<<"2">>, <<"0", "2">>},
                       d \in {<<"2", "8">>, <<"2", "9">>},
                       a \in {Empty, <<"5">>}, b \in {Empty, <<"5">>},
                       c \in {Empty, <<"5">>}}
  \cup {<<<<"2">>, <<"3", "0">>, Empty, Empty, Empty>>,
        <<<<"2">>, <<"2", "8">>, <<"5">>, Bad, Empty>>}

\* A file of five rows, February 28 twice (15 observations).
LongFile ==
  LET five == <<"5">>
  IN File(<<WideHeader,
            <<<<"2">>, <<"2", "7">>, five, five, five>>,
            <<<<"2">>, <<"2", "8">>, five, five, five>>,
            <<<<"2">>, <<"2", "8">>, Empty, Empty, Empty>>,
            <<<<"3">>, <<"1">>, five, five, five>>,
            <<<<"3">>, <<"2">>, five, five, five>>>>)

\* -------------------------------------------------------------------- state

VARIABLES
  fs,        \* the input files, by path
  dataCsv,   \* the output file data.csv
  before,    \* data.csv as it was when the run started
  pc,        \* the statement mainWithErr (or the function it called) is at
  err,       \* mainWithErr: err, the error of the last call
  ret,       \* the error mainWithErr returned, nil while it runs
  calls,     \* the functions mainWithErr has called, in order
  rd,        \* readOkhotsk: the next record of the csv.Reader
  i,         \* readOkhotsk: i
  row,       \* readOkhotsk: row
  col,       \* readOkhotsk: col
  data,      \* readOkhotsk: data, as appended
  okhotsk, danshui, katsuura, nemuro, yelizovo,
  okhotskM, danshuiM, katsuuraM, nemuroM, yelizovoM,
  joined,    \* mainWithErr: joined
  n,         \* mainWithErr: the index of the join loop in danshui
  buf        \* write: the bytes.Buffer, as CSV records

env == <<fs, before>>
okVars == <<rd, i, row, col, data>>
seqVars == <<okhotsk, danshui, katsuura, nemuro, yelizovo>>
mapVars == <<okhotskM, danshuiM, katsuuraM, nemuroM, yelizovoM>>
joinVars == <<joined, n>>
outVars == <<dataCsv, buf>>
vars == <<env, pc, err, ret, calls, okVars, seqVars, mapVars, joinVars, outVars>>

\* The state at the call of mainWithErr, the files aside.
Start ==
  /\ before = dataCsv
  /\ pc = "readOkhotsk"
  /\ err = nil
  /\ ret = nil
  /\ calls = << >>
  /\ rd = 1 /\ i = 0 /\ row = << >> /\ col = 0 /\ data = << >>
  /\ okhotsk = << >> /\ danshui = << >> /\ katsuura = << >>
  /\ nemuro = << >> /\ yelizovo = << >>
  /\ okhotskM = << >> /\ danshuiM = {} /\ katsuuraM = << >>
  /\ nemuroM = << >> /\ yelizovoM = << >>
  /\ joined = << >> /\ n = 1
  /\ buf = << >>

\* A run over data.csv of an earlier run, or a first run (no data.csv yet)
\* with plain auxiliary files.
Init ==
  /\ \/ fs \in FileSystems /\ dataCsv = OldCsv
     \/ /\ fs \in {[p \in Paths |-> IF p = "data/danshui.csv" THEN g ELSE Plain(p)] :
                    g \in Variants("data/danshui.csv")}
        /\ dataCsv = NoFile
  /\ Start

InitOkhotsk ==
  /\ fs \in {[p \in Paths |-> IF p = "data/okhotsk.csv" THEN f ELSE NoFile] :
               f \in FilesOf(WideHeader, WideRows) \cup {LongFile}}
  /\ dataCsv = NoFile
  /\ Start

\* mainWithErr going on after a call whatever it returned.
ReturnedUnchecked(e, next) ==
  /\ err' = e
  /\ pc' = next
  /\ ret' = ret

\* A call of mainWithErr returned the error e: err is e, and when it is not
\* nil mainWithErr returns errors.Wrap(err, ""); otherwise it goes on at next.
Returned(e, next) ==
  /\ err' = e
  /\ IF e # nil
     THEN pc' = "failed" /\ ret' = Wrap(e, << >>)
     ELSE pc' = next /\ ret' = ret

\* -------------------------------------------------------------- readOkhotsk

BaseYear == 1978

\* os.Open(fpath).
OkOpen ==
  /\ pc = "readOkhotsk"
  /\ calls' = Append(calls, "readOkhotsk")
  /\ IF fs["data/okhotsk.csv"].exists
     THEN pc' = "okHeader" /\ UNCHANGED <<err, ret>>
     ELSE Returned(Wrap(NewError("open"), << >>), "failed")
  /\ UNCHANGED <<env, okVars, seqVars, mapVars, joinVars, outVars>>

\* The header: r.Read(), and the locals of the loop.
OkHeader ==
  /\ pc = "okHeader"
  /\ IF fs["data/okhotsk.csv"].rows = << >>
     THEN /\ Returned(Wrap(NewError("EOF"), << >>), "failed")
          /\ UNCHANGED okVars
     ELSE /\ pc' = "okRead"
          /\ rd' = 2 /\ i' = 1 /\ data' = << >>
          /\ UNCHANGED <<row, col, err, ret>>
  /\ UNCHANGED <<env, calls, seqVars, mapVars, joinVars, outVars>>

\* The head of the outer loop: i++, r.Read(), and the first test of the
\* inner loop (col := 2; col < len(row)).
OkRead ==
  /\ pc = "okRead"
  /\ i' = i + 1
  /\ IF rd > Len(fs["data/okhotsk.csv"].rows)
     THEN pc' = "okSort" /\ UNCHANGED <<rd, row, col>>
     ELSE /\ row' = fs["data/okhotsk.csv"].rows[rd]
          /\ rd' = rd + 1
          /\ col' = 2
          /\ pc' = IF 2 < Len(row') THEN "okCell" ELSE "okRead"
  /\ UNCHANGED <<env, err, ret, calls, data, seqVars, mapVars, joinVars, outVars>>

\* The skip of February 29 without the test of the cell.
anyFeb29(rw, c) == At(rw, 0) = <<"2">> /\ At(rw, 1) = <<"2", "9">>

\* row[0] == "2" && row[1] == "29" && row[col] == ""
nonexistentFeb29(rw, c) ==
  At(rw, 0) = <<"2">> /\ At(rw, 1) = <<"2", "9">> /\ At(rw, c) = Empty

\* fmt.Sprintf("%d-%s-%s", year, row[0], row[1]) for year := 1978 + col - 2
tStr(rw, c) == Itoa(BaseYear + c - 2) \o <<"-">> \o At(rw, 0) \o <<"-">> \o At(rw, 1)

\* One pass of the inner loop's body, for row[col]: what it appends to data
\* (app), or the error it returns.
cellResult(rw, c, ii) ==
  LET t == ParseYMD(tStr(rw, c))
      v == ParseFloat(At(rw, c))
  IN IF nonexistentFeb29(rw, c) THEN [app |-> << >>, err |-> nil]
     ELSE IF t.err # nil THEN [app |-> << >>, err |-> Wrap(t.err, <<ii, c>>)]
     ELSE IF At(rw, c) = Empty
          THEN [app |-> <<RawDatum(t.t, TRUE, 0)>>, err |-> nil]
     ELSE IF v.err # nil THEN [app |-> << >>, err |-> Wrap(v.err, <<ii, c>>)]
     ELSE [app |-> <<RawDatum(t.t, FALSE, v.v)>>, err |-> nil]

\* The body of the inner loop for row[col], then col++ and the loop's test.
OkCell ==
  /\ pc = "okCell"
  /\ LET res == cellResult(row, col, i)
     IN IF res.err # nil
        THEN Returned(res.err, "failed") /\ UNCHANGED <<data, col>>
        ELSE /\ data' = data \o res.app
             /\ col' = col + 1
             /\ pc' = IF col + 1 < Len(row) THEN "okCell" ELSE "okRead"
             /\ UNCHANGED <<err, ret>>
  /\ UNCHANGED <<env, calls, rd, i, row, seqVars, mapVars, joinVars, outVars>>

\* The longest slice slices.SortFunc sorts by insertion sort alone.
maxInsertion == 12

\* insertionSortCmpFunc: each element moves left past the elements that
\* compare greater than it.
RECURSIVE insertionSort(_)
insertionSort(d) ==
  IF Len(d) <= 1 THEN d
  ELSE LET front == insertionSort(SubSeq(d, 1, Len(d) - 1))
           x == d[Len(d)]
           p == Cardinality({k \in 1..Len(front) : Unix(front[k].t) <= Unix(x.t)})
       IN SubSeq(front, 1, p) \o <<x>> \o SubSeq(front, p + 1, Len(front))

\* The orders of d that are non-decreasing in t.Unix().
sortedOrders(d) ==
  LET key(k) == Unix(d[k].t)
      RECURSIVE orders(_)
      orders(I) ==
        IF I = {} THEN {<< >>}
        ELSE LET m == CHOOSE k \in I : \A j \in I : key(k) <= key(j)
                 G == {k \in I : key(k) = key(m)}
                 perms == {f \in [1..Cardinality(G) -> G] :
                             \A a, b \in 1..Cardinality(G) : a # b => f[a] # f[b]}
             IN {g \o rest : g \in perms, rest \in orders(I \ G)}
  IN {[k \in 1..Len(d) |-> d[o[k]]] : o \in orders(1..Len(d))}

\* slices.SortFunc(data, cmp) with cmp comparing t.Unix(): the results it
\* can return.  A slice of at most 12 elements is sorted by insertion sort;
\* a longer one by pattern-defeating quicksort, of which the library
\* promises the order of the keys and not the order of elements with equal
\* keys ("This sort is not guaranteed to be stable"), so each such order is
\* a result.
SortFunc(d) ==
  IF Len(d) <= maxInsertion THEN {insertionSort(d)} ELSE sortedOrders(d)

\* The sort, and the return to mainWithErr (err is nil).
OkSort ==
  /\ pc = "okSort"
  /\ okhotsk' \in SortFunc(data)
  /\ Returned(nil, "readTaiwan")
  /\ UNCHANGED <<env, calls, okVars, danshui, katsuura, nemuro, yelizovo,
                 mapVars, joinVars, outVars>>

\* The inner loop of readOkhotsk from column c of row rw, as one computation.
RECURSIVE okhotskCols(_, _, _, _)
okhotskCols(rw, c, ii, d) ==
  IF c >= Len(rw) THEN [data |-> d, err |-> nil]
  ELSE LET res == cellResult(rw, c, ii)
       IN IF res.err # nil THEN [data |-> << >>, err |-> res.err]
          ELSE okhotskCols(rw, c + 1, ii, d \o res.app)

\* The outer loop of readOkhotsk from record k of the file (i = k).
RECURSIVE okhotskLoop(_, _, _)
okhotskLoop(rows, k, d) ==
  IF k > Len(rows) THEN [data |-> d, err |-> nil]
  ELSE LET res == okhotskCols(rows[k], 2, k, d)
       IN IF res.err # nil THEN res ELSE okhotskLoop(rows, k + 1, res.data)

\* readOkhotsk up to the sort: the data as appended, or the error.
readOkhotsk(f) ==
  IF ~f.exists THEN [data |-> << >>, err |-> Wrap(NewError("open"), << >>)]
  ELSE IF f.rows = << >> THEN [data |-> << >>, err |-> Wrap(NewError("EOF"), << >>)]
  ELSE okhotskLoop(f.rows, 2, << >>)

NextOkhotsk == OkOpen \/ OkHeader \/ OkRead \/ OkCell \/ OkSort

SpecOkhotsk == InitOkhotsk /\ [][NextOkhotsk]_vars

\* -------------------------------------------------------------- mainWithErr

\* okhotsk, err := readOkhotsk("data/okhotsk.csv"), as one step.
ReadOkhotsk ==
  /\ pc = "readOkhotsk"
  /\ calls' = Append(calls, "readOkhotsk")
  /\ LET res == readOkhotsk(fs["data/okhotsk.csv"])
     IN /\ okhotsk' \in (IF res.err # nil THEN {<< >>} ELSE SortFunc(res.data))
        /\ Returned(res.err, "readTaiwan")
  /\ UNCHANGED <<env, okVars, danshui, katsuura, nemuro, yelizovo, mapVars,
                 joinVars, outVars>>

\* danshui, err := readTaiwan("data/danshui.csv")
ReadTaiwan ==
  /\ pc = "readTaiwan"
  /\ calls' = Append(calls, "readTaiwan")
  /\ LET res == readTaiwan(fs["data/danshui.csv"])
     IN danshui' = res.data /\ Returned(res.err, "readKatsuura")
  /\ UNCHANGED <<env, okVars, okhotsk, katsuura, nemuro, yelizovo, mapVars,
                 joinVars, outVars>>

\* katsuura, err := readJapan("data/katsuura.csv")
ReadKatsuura ==
  /\ pc = "readKatsuura"
  /\ calls' = Append(calls, "readJapan katsuura")
  /\ LET res == readJapan(fs["data/katsuura.csv"])
     IN katsuura' = res.data /\ Returned(res.err, "readNemuro")
  /\ UNCHANGED <<env, okVars, okhotsk, danshui, nemuro, yelizovo, mapVars,
                 joinVars, outVars>>

\* nemuro, err := readJapan("data/nemuro.csv")
ReadNemuro ==
  /\ pc = "readNemuro"
  /\ calls' = Append(calls, "readJapan nemuro")
  /\ LET res == readJapan(fs["data/nemuro.csv"])
     IN nemuro' = res.data /\ Returned(res.err, "readYelizovo")
  /\ UNCHANGED <<env, okVars, okhotsk, danshui, katsuura, yelizovo, mapVars,
                 joinVars, outVars>>

\* yelizovo, err := readGSOD("data/yelizovo.csv")
ReadYelizovo ==
  /\ pc = "readYelizovo"
  /\ calls' = Append(calls, "readGSOD")
  /\ LET res == readGSOD(fs["data/yelizovo.csv"])
     IN yelizovo' = res.data /\ Returned(res.err, "index")
  /\ UNCHANGED <<env, okVars, okhotsk, danshui, katsuura, nemuro, mapVars,
                 joinVars, outVars>>

\* A map store that keeps the value a key already has.
PutIfAbsent(m, k, v) ==
  [x \in DOMAIN m \cup {k} |-> IF x \in DOMAIN m THEN m[x] ELSE v]

\* m[k] = v on a Go map.
Put(m, k, v) == [x \in DOMAIN m \cup {k} |-> IF x = k THEN v ELSE m[x]]

\* for _, d := range seq { s := d.t.Format(time.DateOnly); m[s] = d }
RECURSIVE indexFrom(_, _, _)
indexFrom(seq, k, m) ==
  IF k > Len(seq) THEN m
  ELSE indexFrom(seq, k + 1, Put(m, FormatDateOnly(seq[k].t), seq[k]))

\* The index that ranges over the slice from its last element to its first.
RECURSIVE indexBackFrom(_, _, _)
indexBackFrom(seq, k, m) ==
  IF k < 1 THEN m
  ELSE indexBackFrom(seq, k - 1, Put(m, FormatDateOnly(seq[k].t), seq[k]))

indexBackwards(seq) == indexBackFrom(seq, Len(seq), << >>)

indexByDate(seq) == indexFrom(seq, 1, << >>)

\* The four date-keyed maps, the empty danshuiM and the empty joined.
Index ==
  /\ pc = "index"
  /\ okhotskM' = indexByDate(okhotsk)
  /\ danshuiM' = {}
  /\ katsuuraM' = indexByDate(katsuura)
  /\ nemuroM' = indexByDate(nemuro)
  /\ yelizovoM' = indexByDate(yelizovo)
  /\ joined' = << >>
  /\ n' = 1
  /\ pc' = IF Len(danshui) = 0 THEN "write" ELSE "join"
  /\ UNCHANGED <<env, err, ret, calls, okVars, seqVars, outVars>>

\* A duplicate test that never finds one.
duplicateNever(seen, s) == FALSE

\* if _, ok := danshuiM[s]; ok
duplicate(seen, s) == s \in seen

\* The lookup without the test of the empty flag.
withoutKey(m, s) == s \notin DOMAIN m

\* od, ok := m[s]; !ok || od.empty
without(m, s) == s \notin DOMAIN m \/ m[s].empty

\* yd, ok := yelizovoM[s]; !ok
withoutYelizovo(m, s) == s \notin DOMAIN m

\* The outlier test with <= for <.
outlierInclusive(v) == v <= (0 - 90) * 10

\* d.v < -90
outlier(v) == v < (0 - 90) * 10

\* A record put in front of joined.
prepend(js, d) == <<d>> \o js

\* joined = append(joined, d)
append(js, d) == Append(js, d)

Datum(t, dv, ov, kv, nv, yv) ==
  [t |-> t, danshui |-> dv, okhotsk |-> ov, katsuura |-> kv, nemuro |-> nv,
   yelizovo |-> yv]

\* One pass of the join loop, for d = danshui[n].
JoinStep ==
  /\ pc = "join"
  /\ LET d == danshui[n]
         s == FormatDateOnly(d.t)
     IN IF duplicate(danshuiM, s)
        THEN UNCHANGED <<danshuiM, joined>>
        ELSE /\ danshuiM' = danshuiM \cup {s}
             /\ joined' =
                  IF \/ without(okhotskM, s)
                     \/ without(katsuuraM, s)
                     \/ without(nemuroM, s)
                     \/ withoutYelizovo(yelizovoM, s)
                     \/ outlier(d.v)
                  THEN joined
                  ELSE append(joined,
                              Datum(d.t, d.v, okhotskM[s].v, katsuuraM[s].v,
                                    nemuroM[s].v, yelizovoM[s].v))
  /\ n' = n + 1
  /\ pc' = IF n + 1 > Len(danshui) THEN "write" ELSE "join"
  /\ UNCHANGED <<env, err, ret, calls, okVars, seqVars, okhotskM, katsuuraM,
                 nemuroM, yelizovoM, outVars>>

\* -------------------------------------------------------------------- write

\* strconv.FormatFloat(v, 'f', -1, 64) of a number of tenths.
FormatShortest(v) ==
  LET mag == IF v < 0 THEN 0 - v ELSE v
  IN (IF v < 0 THEN <<"-">> ELSE << >>) \o Itoa(mag \div 10)
     \o (IF mag % 10 = 0 THEN << >> ELSE <<".", DigitChar(mag % 10)>>)

\* strconv.FormatFloat(v, 'f', 1, 64) of a number of tenths.
FormatOneDecimal(v) ==
  LET mag == IF v < 0 THEN 0 - v ELSE v
  IN (IF v < 0 THEN <<"-">> ELSE << >>) \o Itoa(mag \div 10)
     \o <<".", DigitChar(mag % 10)>>

HeaderRecord == <<"t", "danshui", "okhotsk", "katsuura", "nemuro", "yelizovo">>

Record(d) ==
  <<FormatDateOnly(d.t), FormatShortest(d.danshui), FormatShortest(d.okhotsk),
    FormatShortest(d.katsuura), FormatShortest(d.nemuro),
    FormatOneDecimal(d.yelizovo)>>

\* The buffer after the header, a record for each datum and w.Flush().
Serialize(ds) == <<HeaderRecord>> \o [k \in 1..Len(ds) |-> Record(ds[k])]

\* write("data.csv", joined), up to the call of os.WriteFile.
WriteBuffer ==
  /\ pc = "write"
  /\ calls' = Append(calls, "write")
  /\ buf' = Serialize(joined)
  /\ pc' = "writeFileOpen"
  /\ UNCHANGED <<env, err, ret, dataCsv, okVars, seqVars, mapVars, joinVars>>

\* os.WriteFile: OpenFile(name, O_WRONLY|O_CREATE|O_TRUNC, perm), which
\* fails and leaves the file alone or creates or truncates it.
WriteFileOpen ==
  /\ pc = "writeFileOpen"
  /\ \/ /\ dataCsv' = File(<< >>)
        /\ pc' = "writeFileWrite"
        /\ UNCHANGED <<err, ret>>
     \/ /\ dataCsv' = dataCsv
        /\ Returned(Wrap(NewError("open"), << >>), "failed")
  /\ UNCHANGED <<env, calls, buf, okVars, seqVars, mapVars, joinVars>>

\* os.WriteFile: f.Write(data) and f.Close(); the write puts all of the
\* buffer in the file, or fails after a part of it (k records); the close
\* may fail after a complete write.
WriteFileWrite ==
  /\ pc = "writeFileWrite"
  /\ \E k \in 0..Len(buf) :
       /\ dataCsv' = File(SubSeq(buf, 1, k))
       /\ \/ k = Len(buf) /\ Returned(nil, "done")
          \/ k = Len(buf) /\ Returned(Wrap(NewError("close"), << >>), "failed")
          \/ k < Len(buf) /\ Returned(Wrap(NewError("write"), << >>), "failed")
  /\ UNCHANGED <<env, calls, buf, okVars, seqVars, mapVars, joinVars>>

Next ==
  \/ ReadOkhotsk \/ ReadTaiwan \/ ReadKatsuura \/ ReadNemuro \/ ReadYelizovo
  \/ Index \/ JoinStep
  \/ WriteBuffer \/ WriteFileOpen \/ WriteFileWrite

Spec == Init /\ [][Next]_vars

\* ============================================================== properties

\* The join loop has ended (write is about to be called, or was called).
JoinDone == pc = "write" \/ Len(calls) = 6

\* The four auxiliary sequences, as the readers returned them.
Aux == <<okhotsk, katsuura, nemuro, yelizovo>>

DatesOf(seq) == {seq[k].t : k \in 1..Len(seq)}

\* The elements of seq at the indices of K, in the order of seq.
RECURSIVE Pick(_, _, _)
Pick(seq, K, k) ==
  IF k > Len(seq) THEN << >>
  ELSE (IF k \in K THEN <<seq[k]>> ELSE << >>) \o Pick(seq, K, k + 1)

\* The indices of the first occurrence of each date of seq.
FirstOccurrences(seq) ==
  {k \in 1..Len(seq) : \A j \in 1..(k - 1) : seq[j].t # seq[k].t}

\* seq has an observation for date t.
Has(seq, t) == \E k \in 1..Len(seq) : seq[k].t = t

\* seq has an observation for date t that is not flagged missing.
HasPresent(seq, t) == \E k \in 1..Len(seq) : seq[k].t = t /\ ~seq[k].empty

\* seq has an observation for date t that is flagged missing.
HasMissing(seq, t) == \E k \in 1..Len(seq) : seq[k].t = t /\ seq[k].empty

\* The last observation of seq for date t (seq has one).
Last(seq, t) ==
  seq[CHOOSE k \in 1..Len(seq) :
        seq[k].t = t /\ \A j \in (k + 1)..Len(seq) : seq[j].t # t]

\* The last observation of seq for date t is there and is not flagged missing.
LastPresent(seq, t) == Has(seq, t) /\ ~Last(seq, t).empty

\* Every auxiliary source covers date t by its last observation for it.
Covered(t) == \A a \in 1..4 : LastPresent(Aux[a], t)

NotBelowBound(v) == ~(v < (0 - 90) * 10)

\* ---- C1

\* The primary entries of the reference join as C1 words it: first
\* occurrences whose date has, in every auxiliary source, an entry that is
\* not flagged missing, and whose value is not below -90.
ReferenceAnyPresent ==
  Pick(danshui,
       {k \in FirstOccurrences(danshui) :
          /\ \A a \in 1..4 : HasPresent(Aux[a], danshui[k].t)
          /\ NotBelowBound(danshui[k].v)}, 1)

\* C1 as stated: the joined sequence is the primary sequence in its order,
\* first occurrences only, kept exactly when every auxiliary source has an
\* entry for the date that is not flagged missing and the value is not
\* below -90.
C1_JoinIsAnyPresentReference ==
  JoinDone =>
    /\ Len(joined) = Len(ReferenceAnyPresent)
    /\ \A k \in 1..Len(joined) :
         /\ joined[k].t = ReferenceAnyPresent[k].t
         /\ joined[k].danshui = ReferenceAnyPresent[k].v

\* The reference join with each auxiliary source read at its last entry for
\* the date.
ReferenceJoin ==
  LET kept == Pick(danshui,
                   {k \in FirstOccurrences(danshui) :
                      Covered(danshui[k].t) /\ NotBelowBound(danshui[k].v)}, 1)
  IN [k \in 1..Len(kept) |->
        [t |-> kept[k].t, danshui |-> kept[k].v,
         okhotsk |-> Last(okhotsk, kept[k].t).v,
         katsuura |-> Last(katsuura, kept[k].t).v,
         nemuro |-> Last(nemuro, kept[k].t).v,
         yelizovo |-> Last(yelizovo, kept[k].t).v]]

\* C1 (amended): the joined sequence equals the reference ordered inner
\* join in which an auxiliary source covers a date when its last entry for
\* that date is not flagged missing; the record carries that entry's value.
C1_JoinIsReference == JoinDone => joined = ReferenceJoin

\* A run that joined two dates, in the primary's order, and dropped nothing.
C1_Witness ==
  /\ JoinDone
  /\ Len(joined) = 2
  /\ Len(danshui) = 2
  /\ joined = ReferenceJoin

\* ---- C2

FieldOf(r, a) ==
  CASE a = 1 -> r.okhotsk [] a = 2 -> r.katsuura [] a = 3 -> r.nemuro
    [] a = 4 -> r.yelizovo

\* Every value of every output record is that of an observation of its
\* source for the record's date whose missing flag is false.
NoMissingValue ==
  \A k \in 1..Len(joined) : \A a \in 1..4 :
    \E j \in 1..Len(Aux[a]) :
      /\ Aux[a][j].t = joined[k].t
      /\ ~Aux[a][j].empty
      /\ Aux[a][j].v = FieldOf(joined[k], a)

\* C2 as stated: no output record holds a missing value, and a primary date
\* that is absent from, or flagged missing in, any one auxiliary source
\* never appears in the output.
C2_NoDateFlaggedMissingAnywhere ==
  /\ NoMissingValue
  /\ \A t \in DatesOf(danshui) :
       (\E a \in 1..4 : ~Has(Aux[a], t) \/ HasMissing(Aux[a], t))
         => t \notin DatesOf(joined)

\* C2 (amended): no output record holds a missing value, and a primary date
\* that is absent from an auxiliary source, or whose last observation in it
\* is flagged missing, never appears in the output.
C2_NoMissingValue ==
  /\ NoMissingValue
  /\ \A t \in DatesOf(danshui) :
       (\E a \in 1..4 : ~LastPresent(Aux[a], t)) => t \notin DatesOf(joined)

\* A run that dropped a primary date for an auxiliary observation flagged
\* missing and kept another date.
C2_Witness ==
  /\ JoinDone
  /\ Len(joined) = 1
  /\ \E t \in DatesOf(danshui) :
       /\ t \notin DatesOf(joined)
       /\ NotBelowBound(Last(danshui, t).v)
       /\ \E a \in 1..4 : Has(Aux[a], t) /\ Last(Aux[a], t).empty

\* ---- C3

\* C3: the output has at most one record per date, its primary value is
\* that of the date's first occurrence in the primary sequence, and a date
\* whose first occurrence is dropped has no record at all.
C3_FirstOccurrenceOnly ==
  /\ \A j, k \in 1..Len(joined) : j # k => joined[j].t # joined[k].t
  /\ \A k \in 1..Len(joined) :
       \E f \in FirstOccurrences(danshui) :
         /\ danshui[f].t = joined[k].t
         /\ danshui[f].v = joined[k].danshui
         /\ NotBelowBound(danshui[f].v)
         /\ Covered(danshui[f].t)

\* A run over a primary sequence with a date twice, with different values,
\* the first one below the bound and the second one not: no record.
C3_Witness ==
  /\ JoinDone
  /\ Len(danshui) = 2
  /\ danshui[1].t = danshui[2].t
  /\ ~NotBelowBound(danshui[1].v)
  /\ NotBelowBound(danshui[2].v)
  /\ Covered(danshui[1].t)
  /\ joined = << >>

\* ---- C4

Ascending(seq) ==
  \A k \in 1..(Len(seq) - 1) : Unix(seq[k].t) < Unix(seq[k + 1].t)

NonDecreasing(seq) ==
  \A k \in 1..(Len(seq) - 1) : Unix(seq[k].t) <= Unix(seq[k + 1].t)

\* C4 as stated: consecutive joined records have strictly increasing dates,
\* whatever sequence readTaiwan returned.
C4_JoinedAscending == Ascending(joined)

\* C4 (amended): consecutive joined records have strictly increasing dates
\* whenever the sequence readTaiwan returned (the file's rows in their
\* order) is in non-decreasing order of date.
C4_JoinedAscendingIfPrimaryIs == NonDecreasing(danshui) => Ascending(joined)

\* A run that joined two records from a primary file in date order.
C4_Witness ==
  /\ JoinDone
  /\ NonDecreasing(danshui)
  /\ Len(joined) = 2

\* ---- C5

\* C5: a first occurrence on a date with full auxiliary coverage is dropped
\* exactly when its value is below -90 (-95 is dropped, -89.9 and -90 are
\* kept), and no output record has a primary value below -90.
C5_RangeFilter ==
  /\ JoinDone =>
       \A k \in FirstOccurrences(danshui) :
         Covered(danshui[k].t) =>
           /\ danshui[k].t \notin DatesOf(joined) <=> danshui[k].v < (0 - 90) * 10
           /\ danshui[k].v = 0 - 950 => danshui[k].t \notin DatesOf(joined)
           /\ danshui[k].v = 0 - 899 => danshui[k].t \in DatesOf(joined)
           /\ danshui[k].v = 0 - 900 => danshui[k].t \in DatesOf(joined)
  /\ \A k \in 1..Len(joined) : joined[k].danshui >= (0 - 90) * 10

\* A run with -95 on one fully covered date (dropped) and exactly -90 on
\* another (kept).
C5_Witness ==
  /\ JoinDone
  /\ \E j, k \in FirstOccurrences(danshui) :
       /\ danshui[j].v = 0 - 950 /\ Covered(danshui[j].t)
       /\ danshui[k].v = 0 - 900 /\ Covered(danshui[k].t)
       /\ DatesOf(joined) = {danshui[k].t}

\* ---- C6

CallOrder == <<"readOkhotsk", "readTaiwan", "readJapan katsuura",
               "readJapan nemuro", "readGSOD", "write">>

\* The error the k-th reader returns on the files of the run.
ReaderErr(k) ==
  CASE k = 1 -> readOkhotsk(fs["data/okhotsk.csv"]).err
    [] k = 2 -> readTaiwan(fs["data/danshui.csv"]).err
    [] k = 3 -> readJapan(fs["data/katsuura.csv"]).err
    [] k = 4 -> readJapan(fs["data/nemuro.csv"]).err
    [] k = 5 -> readGSOD(fs["data/yelizovo.csv"]).err

NothingJoined ==
  /\ joined = << >> /\ n = 1 /\ danshuiM = {}
  /\ okhotskM = << >> /\ katsuuraM = << >> /\ nemuroM = << >> /\ yelizovoM = << >>

\* C6: the calls are made in the fixed order; a call is made only after
\* every earlier reader succeeded; when a reader fails, nothing is joined,
\* write is not called, data.csv is as it was, and mainWithErr returns a
\* non-nil error that wraps the reader's.
C6_FirstErrorAborts ==
  /\ Len(calls) <= 6
  /\ calls = SubSeq(CallOrder, 1, Len(calls))
  /\ \A k \in 1..5 : Len(calls) > k => ReaderErr(k) = nil
  /\ \A k \in 1..5 :
       (Len(calls) = k /\ ReaderErr(k) # nil) =>
         /\ pc = "failed"
         /\ err = ReaderErr(k)
         /\ ret # nil /\ ret = Wrap(err, << >>)
         /\ NothingJoined
         /\ buf = << >>
         /\ dataCsv = before
  /\ (pc \in {"index", "join"} \/ ~NothingJoined) => Len(calls) >= 5
  /\ (dataCsv # before \/ buf # << >>) => Len(calls) = 6

\* A run in which readJapan failed on katsuura and mainWithErr returned.
C6_Witness ==
  /\ pc = "failed"
  /\ Len(calls) = 3
  /\ ReaderErr(3) # nil
  /\ ret # nil

\* ---- C7

\* C7: from the call of write on, data.csv holds the complete serialized
\* output or what it held before the call.
C7_WriteAllOrNothing ==
  Len(calls) = 6 => (dataCsv = before \/ dataCsv = File(Serialize(joined)))

\* ---- C8

\* The observations of seq for date t, in their order.
OnDate(seq, t) == SelectSeq(seq, LAMBDA d : d.t = t)

\* C8: the sequence readOkhotsk returns is sorted non-decreasing by date,
\* and the observations of one date are in the order the scan appended them.
C8_SortedAndStable ==
  (pc = "readTaiwan") =>
    /\ NonDecreasing(okhotsk)
    /\ \A t \in DatesOf(data) : OnDate(okhotsk, t) = OnDate(data, t)

\* ---- C9

MonthOf(rw) == Atoi(At(rw, 0))
DayOf(rw) == Atoi(At(rw, 1))
YearOf(c) == 1978 + (c - 2)

\* The date of cell c of row rw exists in the calendar.
DateExists(rw, c) ==
  /\ MonthOf(rw) >= 1 /\ MonthOf(rw) <= 12
  /\ DayOf(rw) >= 1 /\ DayOf(rw) <= daysIn(MonthOf(rw), YearOf(c))

\* The step appended exactly one observation for cell c of row rw, with
\* the given missing flag.
Appended(rw, c, missing) ==
  /\ Len(data') = Len(data) + 1
  /\ SubSeq(data', 1, Len(data)) = data
  /\ data'[Len(data')].t = Date(YearOf(c), MonthOf(rw), DayOf(rw))
  /\ data'[Len(data')].empty = missing

\* The step made the parser fail, with nothing appended.
Failed == pc' = "failed" /\ ret' # nil /\ data' = data

\* The step went on without an observation and without an error.
Skipped == pc' # "failed" /\ ret' = nil /\ data' = data

\* C9 as stated: an empty cell of a row with month 2 and day 29 gives no
\* observation and no error; every other empty cell gives an observation
\* flagged missing; a non-empty cell gives a non-missing observation dated
\* year = 1978 + (column - 2) with the row's month and day, or a failure.
C9_SkipRuleAsStated ==
  [][pc = "okCell" =>
       LET isFeb29 == At(row, 0) = <<"2">> /\ At(row, 1) = <<"2", "9">>
           empty == At(row, col) = Empty
       IN /\ (isFeb29 /\ empty) => Skipped
          /\ (~isFeb29 /\ empty) => Appended(row, col, TRUE)
          /\ ~empty => (Appended(row, col, FALSE) \/ Failed)]_vars

\* C9 (amended): an empty cell of a row whose month field is "2" and day
\* field is "29" gives no observation and no error; every other empty cell
\* gives an observation flagged missing when its date exists and makes the
\* parser fail when it does not; a non-empty cell gives a non-missing
\* observation dated year = 1978 + (column - 2) with the row's month and
\* day, or makes the parser fail.
C9_SkipRule ==
  [][pc = "okCell" =>
       LET isFeb29 == At(row, 0) = <<"2">> /\ At(row, 1) = <<"2", "9">>
           empty == At(row, col) = Empty
       IN /\ (isFeb29 /\ empty) => Skipped
          /\ (~isFeb29 /\ empty /\ DateExists(row, col))
               => Appended(row, col, TRUE)
          /\ (~isFeb29 /\ empty /\ ~DateExists(row, col)) => Failed
          /\ ~empty => (Appended(row, col, FALSE) \/ Failed)]_vars

\* The scan went past an empty cell of a "2", "29" row (in the leap year's
\* column) and past a non-empty one, and appended one observation.
C9_Witness ==
  /\ pc = "okRead" /\ Len(row) = 5
  /\ At(row, 0) = <<"2">> /\ At(row, 1) = <<"2", "9">>
  /\ At(row, 2) = Empty /\ At(row, 3) = Empty /\ At(row, 4) = <<"5">>
  /\ col = 5
  /\ Len(data) = 1

\* ---- C10

\* m is the index of seq that holds, for each date, the last observation.
LastWins(m, seq) ==
  /\ DOMAIN m = {FormatDateOnly(t) : t \in DatesOf(seq)}
  /\ \A t \in DatesOf(seq) : m[FormatDateOnly(t)] = Last(seq, t)

\* C10: each auxiliary lookup holds the last observation of each date; a
\* joined record takes each auxiliary value from the last observation, which
\* is not flagged missing; a date whose last observation is flagged missing
\* is not in the output; and the duplicate is no error.
C10_AuxiliaryLastWins ==
  /\ (pc = "join" \/ JoinDone) =>
       /\ LastWins(okhotskM, okhotsk) /\ LastWins(katsuuraM, katsuura)
       /\ LastWins(nemuroM, nemuro) /\ LastWins(yelizovoM, yelizovo)
  /\ \A k \in 1..Len(joined) : \A a \in 1..4 :
       /\ Has(Aux[a], joined[k].t)
       /\ ~Last(Aux[a], joined[k].t).empty
       /\ FieldOf(joined[k], a) = Last(Aux[a], joined[k].t).v
  /\ \A t \in DatesOf(danshui) : \A a \in 1..4 :
       (Has(Aux[a], t) /\ Last(Aux[a], t).empty) => t \notin DatesOf(joined)
  /\ (Len(calls) = 5 /\ ReaderErr(5) = nil) => (pc # "failed" /\ ret = nil)

\* A run whose auxiliary source has two present observations of one date
\* with different values, joined with the value of the second.
C10_Witness ==
  /\ JoinDone
  /\ \E a \in 1..4 :
       /\ Len(Aux[a]) = 2
       /\ Aux[a][1].t = Aux[a][2].t
       /\ ~Aux[a][1].empty /\ ~Aux[a][2].empty
       /\ Aux[a][1].v # Aux[a][2].v
       /\ \E k \in 1..Len(joined) :
            joined[k].t = Aux[a][2].t /\ FieldOf(joined[k], a) = Aux[a][2].v

====
